---- MODULE Spec2Model ----
(***************************************************************************)
(* GitHub User Finder (src/src/main.js): the submit handler, the async     *)
(* controller getUserProfile and the view function renderProfile, as a     *)
(* state machine.  Every invocation of getUserProfile is one entry of      *)
(* `queries`; each action is one run-to-the-next-await of the code.        *)
(***************************************************************************)
EXTENDS Integers, Sequences, FiniteSets, TLC

VARIABLES
    searchInput,   \* value of the #text-field input at the last submit (characters)
    nSubmit,       \* number of submit events handled so far
    queries,       \* one record per invocation of getUserProfile, in call order
    net,           \* requests issued by fetch whose response is not fully consumed
    display,       \* mainContainer.innerHTML, as a description of what is shown
    lastSettled    \* history: index in `queries` of the invocation that settled last, 0 if none

vars == <<searchInput, nSubmit, queries, net, display, lastSettled>>

----------------------------------------------------------------------------
(* Bounds of the model *)

MaxSubmits == 2
MaxRepos == 7

(* per_page of the repository-listing request *)
PerPage == 6

----------------------------------------------------------------------------
(* JavaScript values *)

Undefined == [js |-> "undefined"]
Null == [js |-> "null"]
JsStr(s) == [js |-> "string", v |-> s]
JsObj(props) == [js |-> "object", props |-> props]
JsArr(items) == [js |-> "array", items |-> items]

\* obj.key : undefined when the property is missing
Field(obj, key) ==
    IF obj.js = "object" /\ key \in DOMAIN obj.props THEN obj.props[key] ELSE Undefined

\* truthiness of a value in a condition or as left operand of ||
Truthy(x) ==
    CASE x.js = "string" -> x.v # ""
      [] x.js \in {"object", "array"} -> TRUE
      [] OTHER -> FALSE

\* ${x} in a template literal
Interp(x) ==
    CASE x.js = "string" -> x.v
      [] x.js = "null" -> "null"
      [] x.js = "undefined" -> "undefined"
      [] x.js = "object" -> "[object Object]"

\* a || b : the left operand when truthy, else the right one
\* (faulty variant: the right operand is never used)
OrElse_NoFallback(a, b) == a
OrElse(a, b) == IF Truthy(a) THEN a ELSE b

----------------------------------------------------------------------------
(* The text field and String.prototype.trim *)

Whitespace == {" ", "\t"}

RECURSIVE TrimStart(_)
TrimStart(s) ==
    IF s # <<>> /\ Head(s) \in Whitespace THEN TrimStart(Tail(s)) ELSE s

RECURSIVE TrimEnd(_)
TrimEnd(s) ==
    IF s # <<>> /\ s[Len(s)] \in Whitespace THEN TrimEnd(SubSeq(s, 1, Len(s) - 1)) ELSE s

\* (faulty variant of Trim: the value is used as typed)
Trim_None(s) == s
Trim(s) == TrimEnd(TrimStart(s))

\* the characters of a text as one string
RECURSIVE Str(_)
Str(s) == IF s = <<>> THEN "" ELSE Head(s) \o Str(Tail(s))

\* what the user may have typed when the form is submitted
Inputs == { <<>>, <<"\t", " ">>, <<"a">>, <<" ", "b", " ">> }

----------------------------------------------------------------------------
(* The requests getUserProfile builds *)

\* GET /users/{username} : no query parameters
UserRequest(username) ==
    [path |-> "users", user |-> username, sort |-> "", per_page |-> 0]

\* GET /users/{username}/repos?sort=updated&per_page=6
\* (faulty variant: per_page left at the API's default of 30)
ReposRequest_DefaultPage(username) ==
    [path |-> "repos", user |-> username, sort |-> "updated", per_page |-> 30]
ReposRequest(username) ==
    [path |-> "repos", user |-> username, sort |-> "updated", per_page |-> PerPage]

\* Response.ok : a status in the range 200-299
\* (faulty variant: the test is missing)
ResponseOk_Always(status) == TRUE
ResponseOk(status) == status >= 200 /\ status <= 299

----------------------------------------------------------------------------
(* The remote API, as far as the code reads its answers *)

Statuses == {200, 404}

Unparsable == [js |-> "unparsable"]

ProfileUrl(login) == "https://github.com/" \o login
RepoUrl(login, name) == ProfileUrl(login) \o "/" \o name

\* the account `login` as GET /users/{login} describes it; its optional
\* fields are either all set or all null
UserObject(login, optional) ==
    JsObj([login |-> JsStr(login),
           html_url |-> JsStr(ProfileUrl(login)),
           name |-> IF optional = "set" THEN JsStr("The " \o login) ELSE Null,
           bio |-> IF optional = "set" THEN JsStr("Hello") ELSE Null,
           location |-> IF optional = "set" THEN JsStr("Lille") ELSE Null])

ErrorObject == JsObj([message |-> JsStr("Not Found")])

\* the k-th most recently updated repository of `login`
RepoObject(login, k) ==
    JsObj([name |-> JsStr("repo" \o ToString(k)),
           html_url |-> JsStr(RepoUrl(login, "repo" \o ToString(k))),
           visibility |-> JsStr("public"),
           description |-> IF k % 3 = 1 THEN Null
                           ELSE IF k % 3 = 2 THEN JsStr("A tool") ELSE JsStr(""),
           language |-> IF k % 2 = 1 THEN JsStr("Go") ELSE Null])

Min(a, b) == IF a < b THEN a ELSE b

\* how many repositories the account may have when the listing is served
RepoCounts == {0, MaxRepos}

\* the bodies a response to `req` with `status` may carry
UserBodies(req, status) ==
    IF status = 200
    THEN {Unparsable, Null} \cup {UserObject(req.user, o) : o \in {"set", "null"}}
    ELSE {Unparsable, ErrorObject}

ReposBodies(req, status) ==
    IF status = 200
    THEN {Unparsable, ErrorObject, JsArr(<<Null>>)}
         \cup {JsArr([k \in 1..Min(n, req.per_page) |-> RepoObject(req.user, k)]) : n \in RepoCounts}
    ELSE {Unparsable, ErrorObject}

----------------------------------------------------------------------------
(* renderProfile: what it puts into the display target.  Only the fragments  *)
(* that depend on the optional fields, the account and the repository list *)
(* are described; counts, avatar and dates are interpolated beside them.   *)

InitialDisplay == [kind |-> "initial"]

ErrorPanel == [kind |-> "error", title |-> "User not found"]

NoBio == "This user has no bio."
NoLocation == "Earth"
NoDescription == "No description provided."

\* one repository card of reposHTML
RepoCard(repo) ==
    [href |-> Interp(Field(repo, "html_url")),
     name |-> Interp(Field(repo, "name")),
     description |-> Interp(OrElse(Field(repo, "description"), JsStr(NoDescription))),
     language |-> IF Truthy(Field(repo, "language"))
                  THEN Interp(Field(repo, "language")) ELSE ""]

\* repos.map(...) : one card per item, in the order of the array
RepoCards(repos) == [k \in 1..Len(repos.items) |-> RepoCard(repos.items[k])]

\* the TypeErrors of renderProfile: a property read of null or undefined,
\* or repos.map on a value that is no array
RenderThrows(user, repos) ==
    \/ user.js \in {"null", "undefined"}
    \/ repos.js # "array"
    \/ \E k \in 1..Len(repos.items) : repos.items[k].js \in {"null", "undefined"}

renderProfile(user, repos) ==
    [kind |-> "profile",
     profileUrl |-> Interp(Field(user, "html_url")),
     login |-> Interp(Field(user, "login")),
     name |-> Interp(OrElse(Field(user, "name"), Field(user, "login"))),
     bio |-> Interp(OrElse(Field(user, "bio"), JsStr(NoBio))),
     location |-> Interp(OrElse(Field(user, "location"), JsStr(NoLocation))),
     cards |-> RepoCards(repos)]

----------------------------------------------------------------------------
(* getUserProfile *)

Searching == {"userFetch", "userJson", "reposFetch", "reposJson"}

\* the invocation's locals when it reaches its first await
NewQuery(username) ==
    [username |-> username, pc |-> "userFetch",
     userStatus |-> 0, userData |-> Undefined,
     reposStatus |-> 0, reposData |-> Undefined,
     error |-> "", userReqs |-> 1, repoReqs |-> 0]

\* the requests issued before the first await
\* (faulty variant: both fetches are started at once)
InitialRequests_Both(username) == {UserRequest(username), ReposRequest(username)}
InitialRequests(username) == {UserRequest(username)}

\* the request of invocation i on `path` that is in flight
InFlight(i, path) == {m \in net : m.q = i /\ m.req.path = path}
RequestOf(i, path) == (CHOOSE m \in InFlight(i, path) : TRUE).req

\* an assignment to mainContainer.innerHTML by invocation i
\* (variant: only the most recently submitted invocation may write)
WriteDisplay_LatestOnly(i, content) == IF i = Len(queries) THEN content ELSE display
WriteDisplay(i, content) == content

\* what the catch block shows, given what is shown now
\* (faulty variant: the error is logged and nothing is written)
OnError_LogOnly(shown) == shown
OnError(shown) == ErrorPanel

\* userData as invocation i passes it to renderProfile
\* (faulty variant: one variable shared by all invocations)
UserDataOf_Shared(i) == queries[Len(queries)].userData
UserDataOf(i) == queries[i].userData

\* invocation i returns, left as record q, having written `content`
Settle(i, q, content) ==
    /\ queries' = [queries EXCEPT ![i] = q]
    /\ net' = {m \in net : m.q # i}
    /\ display' = WriteDisplay(i, content)
    /\ lastSettled' = i
    /\ UNCHANGED <<searchInput, nSubmit>>

\* invocation i, with locals q, throws err inside the try block; the block's
\* constants are out of scope in the catch block, the record keeps the
\* status of the user lookup and the request counts
Catch(i, q, err) ==
    Settle(i, [q EXCEPT !.pc = "error", !.error = err,
                        !.userData = Undefined, !.reposStatus = 0,
                        !.reposData = Undefined],
           OnError(display))

\* fetch(userUrl) rejects
\* (faulty variant: the request is issued again)
UserFetchRejects_Retry(i) ==
    /\ queries' = [queries EXCEPT ![i].userReqs = @ + 1]
    /\ UNCHANGED <<searchInput, nSubmit, net, display, lastSettled>>
UserFetchRejects(i) == Catch(i, queries[i], "TypeError: Failed to fetch")

\* await fetch(userUrl) settles; then the ok test and the call of json()
UserFetchSettles(i) ==
    /\ queries[i].pc = "userFetch"
    /\ \/ UserFetchRejects(i)
       \/ \E status \in Statuses :
            LET q == [queries[i] EXCEPT !.userStatus = status] IN
            IF ~ResponseOk(status)
            THEN Catch(i, q, "Error: User not found")
            ELSE /\ queries' = [queries EXCEPT ![i] = [q EXCEPT !.pc = "userJson"]]
                 /\ UNCHANGED <<searchInput, nSubmit, net, display, lastSettled>>

\* await userResponse.json() settles; then fetch(reposUrl) is called
UserJsonSettles(i) ==
    /\ queries[i].pc = "userJson"
    /\ \E body \in UserBodies(RequestOf(i, "users"), queries[i].userStatus) :
         IF body = Unparsable
         THEN Catch(i, queries[i], "SyntaxError")
         ELSE /\ queries' = [queries EXCEPT ![i].userData = body,
                                            ![i].pc = "reposFetch",
                                            ![i].repoReqs = @ + 1]
              /\ net' = (net \ InFlight(i, "users"))
                          \cup {[q |-> i, req |-> ReposRequest(queries[i].username)]}
              /\ UNCHANGED <<searchInput, nSubmit, display, lastSettled>>

\* await fetch(reposUrl) settles; json() is called whatever the status
ReposFetchSettles(i) ==
    /\ queries[i].pc = "reposFetch"
    /\ \/ Catch(i, queries[i], "TypeError: Failed to fetch")
       \/ \E status \in Statuses :
            /\ queries' = [queries EXCEPT ![i].reposStatus = status,
                                          ![i].pc = "reposJson"]
            /\ UNCHANGED <<searchInput, nSubmit, net, display, lastSettled>>

\* await reposResponse.json() settles; then renderProfile(userData, reposData)
ReposJsonSettles(i) ==
    /\ queries[i].pc = "reposJson"
    /\ \E body \in ReposBodies(RequestOf(i, "repos"), queries[i].reposStatus) :
         IF body = Unparsable
         THEN Catch(i, queries[i], "SyntaxError")
         ELSE IF RenderThrows(UserDataOf(i), body)
         THEN Catch(i, queries[i], "TypeError")
         ELSE Settle(i, [queries[i] EXCEPT !.pc = "displayed", !.reposData = body],
                     renderProfile(UserDataOf(i), body))

----------------------------------------------------------------------------
(* The submit handler *)

\* if (username)
\* (faulty variant: the form stays dead once a query has failed)
StartsSearch_OnlyWhenNoError(username) ==
    username # "" /\ \A k \in 1..Len(queries) : queries[k].pc # "error"
StartsSearch(username) == username # ""

Submit(input) ==
    /\ nSubmit < MaxSubmits
    /\ searchInput' = input
    /\ nSubmit' = nSubmit + 1
    /\ LET username == Str(Trim(input)) IN
       IF StartsSearch(username)
       THEN /\ queries' = Append(queries, NewQuery(username))
            /\ net' = net \cup {[q |-> Len(queries) + 1, req |-> r] : r \in InitialRequests(username)}
       ELSE UNCHANGED <<queries, net>>
    /\ UNCHANGED <<display, lastSettled>>

----------------------------------------------------------------------------

Init ==
    /\ searchInput = <<>>
    /\ nSubmit = 0
    /\ queries = <<>>
    /\ net = {}
    /\ display = InitialDisplay
    /\ lastSettled = 0

Resume(i) ==
    \/ UserFetchSettles(i)
    \/ UserJsonSettles(i)
    \/ ReposFetchSettles(i)
    \/ ReposJsonSettles(i)

Next ==
    \/ \E input \in Inputs : Submit(input)
    \/ \E i \in 1..Len(queries) : UserFetchSettles(i)
    \/ \E i \in 1..Len(queries) : UserJsonSettles(i)
    \/ \E i \in 1..Len(queries) : ReposFetchSettles(i)
    \/ \E i \in 1..Len(queries) : ReposJsonSettles(i)

Spec == Init /\ [][Next]_vars

\* every issued request eventually completes or fails
LiveSpec == Spec /\ \A i \in 1..MaxSubmits : WF_vars(i <= Len(queries) /\ Resume(i))

----------------------------------------------------------------------------
(* Vocabulary of the properties *)

Q == 1..Len(queries)

IsBlank(s) == \A k \in 1..Len(s) : s[k] \in Whitespace

Settled == {"displayed", "error"}

\* the invocation that settled last
LastResolved == queries[lastSettled]

\* what a settled invocation wrote into the display target
Outcome(q) ==
    IF q.pc = "displayed" THEN renderProfile(q.userData, q.reposData) ELSE ErrorPanel

Absent(x) == x.js \in {"null", "undefined"}
NonEmpty(x) == x.js = "string" /\ x.v # ""

----------------------------------------------------------------------------
(* C1: a query whose user-lookup response has the not-found status never   *)
(* issues the repository-listing request: its count of repository requests *)
(* stays 0 and none is in flight.                                          *)
C1_NoReposRequestAfterNotFound ==
    \A i \in Q :
        queries[i].userStatus = 404
            => queries[i].repoReqs = 0 /\ InFlight(i, "repos") = {}

C1_Witness ==
    \E i \in Q : /\ queries[i].userStatus = 404
                 /\ queries[i].pc = "error"
                 /\ queries[i].error = "Error: User not found"

(* C2: a submit whose input is empty or only whitespace issues no request  *)
(* and leaves the display target (and every query) exactly as it was.      *)
C2_BlankSubmitChangesNothing ==
    [][ (nSubmit' = nSubmit + 1 /\ IsBlank(searchInput'))
            => UNCHANGED <<queries, net, display, lastSettled>> ]_vars

C2_Witness ==
    /\ nSubmit = 2
    /\ searchInput # <<>> /\ IsBlank(searchInput)
    /\ Len(queries) = 1
    /\ display.kind = "profile"

(* C3: whenever the invocation that settled last failed (not-found status, *)
(* rejected fetch, unparsable body, or a throwing render) the display      *)
(* target holds exactly the error panel; a profile is shown only as the    *)
(* complete rendering of a successful invocation; and every failure is     *)
(* caught: an invocation with an error is in its error state.              *)
C3_FailureShowsErrorPanel ==
    /\ \A i \in Q : /\ queries[i].pc \in Searching \cup Settled
                    /\ queries[i].error # "" <=> queries[i].pc = "error"
    /\ lastSettled # 0 /\ LastResolved.pc = "error" => display = ErrorPanel
    /\ display.kind = "profile" => lastSettled # 0 /\ LastResolved.pc = "displayed"
    /\ display.kind \in {"initial", "error", "profile"}

C3_Witness ==
    /\ lastSettled = 2
    /\ queries[1].pc = "displayed"
    /\ queries[2].error = "TypeError"
    /\ display = ErrorPanel

(* C4: a displayed profile is the rendering of one invocation whose two    *)
(* requests were both issued, answered and parsed; the profile summary and *)
(* every repository card belong to that invocation's username.             *)
C4_ProfileFromOneCompleteQuery ==
    display.kind = "profile" =>
        /\ lastSettled # 0
        /\ LET w == LastResolved IN
           /\ w.pc = "displayed"
           /\ w.userReqs = 1 /\ w.repoReqs = 1
           /\ w.userStatus = 200
           /\ w.userData.js = "object" /\ w.reposData.js = "array"
           /\ display.login = w.username
           /\ display.profileUrl = ProfileUrl(w.username)
           /\ Len(display.cards) = Len(w.reposData.items)
           /\ \A k \in 1..Len(display.cards) :
                display.cards[k].href = RepoUrl(w.username, display.cards[k].name)

C4_Witness ==
    /\ Len(queries) = 2
    /\ queries[1].pc = "displayed" /\ queries[2].pc = "displayed"
    /\ queries[1].username = "a" /\ queries[2].username = "b"
    /\ display.kind = "profile" /\ display.login = "a"
    /\ Len(display.cards) >= 2

(* C5: a displayed profile has at most 6 repository cards, one per item of *)
(* the repository-listing response and in the order of that response.      *)
C5_AtMostSixCardsInOrder ==
    display.kind = "profile" =>
        /\ Len(display.cards) <= 6
        /\ lastSettled # 0
        /\ LET items == LastResolved.reposData.items IN
           /\ Len(display.cards) = Len(items)
           /\ \A k \in 1..Len(items) :
                /\ display.cards[k].name = items[k].props.name.v
                /\ display.cards[k].href = items[k].props.html_url.v

C5_Witness ==
    /\ display.kind = "profile"
    /\ Len(display.cards) = 6
    /\ display.cards[1].name = "repo1" /\ display.cards[6].name = "repo6"

(* C6: no request is retried.  In every step each invocation has issued at *)
(* most one user-lookup and at most one repository-listing request; a      *)
(* response with a non-ok status is followed by the invocation's failure;  *)
(* the step in which an invocation fails issues nothing, drops what it had *)
(* in flight and writes the error panel; and a failed invocation never     *)
(* changes or issues a request again.                                      *)
C6_NoRetry ==
    [][ /\ \A i \in 1..Len(queries') :
             queries'[i].userReqs <= 1 /\ queries'[i].repoReqs <= 1
        /\ \A i \in Q :
             /\ (queries[i].pc # "error" /\ queries'[i].pc = "error")
                   => /\ queries'[i].userReqs = queries[i].userReqs
                      /\ queries'[i].repoReqs = queries[i].repoReqs
                      /\ display' = ErrorPanel
             /\ queries'[i].pc = "error" => {m \in net' : m.q = i} = {}
             /\ (queries'[i].userStatus # 0 /\ ~ResponseOk(queries'[i].userStatus)
                    /\ queries'[i] # queries[i])
                   => queries'[i].pc = "error"
             /\ (queries[i].pc = "reposJson" /\ ~ResponseOk(queries[i].reposStatus)
                    /\ queries'[i] # queries[i])
                   => queries'[i].pc = "error"
             /\ queries[i].pc = "error" => queries'[i] = queries[i] ]_vars

C6_Witness ==
    \E i \in Q : /\ queries[i].pc = "error"
                 /\ queries[i].error = "TypeError: Failed to fetch"
                 /\ queries[i].userReqs = 1 /\ queries[i].repoReqs = 1
                 /\ display = ErrorPanel

(* C7: if every issued request eventually completes or fails, every query  *)
(* that is Searching eventually is Displaying or ErrorDisplayed; and every *)
(* submit of a non-blank input, whatever the outcome of the earlier        *)
(* queries, starts a new search.                                           *)
C7_EveryQuerySettlesAndSubmitRestarts ==
    /\ \A i \in 1..MaxSubmits :
          (i <= Len(queries) /\ queries[i].pc \in Searching)
              ~> (i <= Len(queries) /\ queries[i].pc \in Settled)
    /\ [][ (nSubmit' = nSubmit + 1 /\ ~IsBlank(searchInput'))
              => /\ Len(queries') = Len(queries) + 1
                 /\ queries'[Len(queries')].pc = "userFetch"
                 /\ queries'[Len(queries')].username = Str(Trim(searchInput'))
                 /\ \E m \in net' : m.q = Len(queries') /\ m.req.path = "users" ]_vars

C7_Witness ==
    /\ lastSettled = 2
    /\ queries[1].pc = "error"
    /\ queries[2].pc = "displayed"
    /\ display.kind = "profile"

(* C8: in a displayed profile an absent bio shows "This user has no bio."  *)
(* and a bio such as "Hello" shows itself; an absent location shows        *)
(* "Earth", an absent repository description shows "No description         *)
(* provided.", and each shows its own value when it has a non-empty one    *)
(* (an empty string counts as absent); no fallback is empty.               *)
C8_FallbackLiterals ==
    display.kind = "profile" =>
        /\ lastSettled # 0
        /\ LET user == LastResolved.userData
               items == LastResolved.reposData.items
               bio == Field(user, "bio")
               location == Field(user, "location") IN
           /\ Absent(bio) \/ bio = JsStr("") => display.bio = "This user has no bio."
           /\ NonEmpty(bio) => display.bio = bio.v
           /\ bio = JsStr("Hello") => display.bio = "Hello"
           /\ Absent(location) \/ location = JsStr("") => display.location = "Earth"
           /\ NonEmpty(location) => display.location = location.v
           /\ Len(display.cards) = Len(items)
           /\ \A k \in 1..Len(items) :
                LET description == Field(items[k], "description") IN
                /\ Absent(description) \/ description = JsStr("")
                      => display.cards[k].description = "No description provided."
                /\ NonEmpty(description)
                      => display.cards[k].description = description.v
           /\ display.bio # "" /\ display.location # ""
           /\ \A k \in 1..Len(display.cards) : display.cards[k].description # ""

C8_Witness ==
    /\ display.kind = "profile"
    /\ lastSettled # 0
    /\ Field(LastResolved.userData, "bio") = Null
    /\ Field(LastResolved.userData, "location") = Null
    /\ display.bio = "This user has no bio."
    /\ display.location = "Earth"
    /\ Len(display.cards) >= 2
    /\ display.cards[1].description = "No description provided."
    /\ display.cards[2].description = "A tool"

(* C9: the two requests of one invocation are never in flight together,    *)
(* and the repository-listing request exists only after the user-lookup    *)
(* response came with a success status and its body was parsed.            *)
C9_RequestsSequential ==
    \A i \in Q :
        /\ ~(InFlight(i, "users") # {} /\ InFlight(i, "repos") # {})
        /\ (InFlight(i, "repos") # {} \/ queries[i].repoReqs > 0)
              => /\ ResponseOk(queries[i].userStatus)
                 /\ queries[i].pc \notin {"userFetch", "userJson"}
                 /\ queries[i].pc \in Searching => queries[i].userData # Undefined

C9_Witness ==
    \E i \in Q : /\ InFlight(i, "repos") # {}
                 /\ InFlight(i, "users") = {}
                 /\ queries[i].pc = "reposJson"
                 /\ queries[i].userData.js = "object"

(* C10: overlapping queries are not cancelled and all write the one        *)
(* display target: an unsettled query keeps its request in flight, and the *)
(* display always holds what the query that settled last wrote, whatever   *)
(* the order of submission.                                                *)
C10_LastResolvedWins ==
    /\ \A i \in Q :
          queries[i].pc \in Searching => \E m \in net : m.q = i
    /\ lastSettled # 0 => lastSettled \in Q /\ LastResolved.pc \in Settled
    /\ lastSettled # 0 => display = Outcome(LastResolved)
    /\ lastSettled = 0 => display = InitialDisplay /\ \A i \in Q : queries[i].pc \in Searching

C10_Witness ==
    /\ Len(queries) = 2
    /\ lastSettled = 1
    /\ queries[1].pc = "displayed" /\ queries[2].pc = "displayed"
    /\ queries[1].username = "a" /\ queries[2].username = "b"
    /\ display.kind = "profile" /\ display.login = "a"

====
